---- MODULE Spec2Model ----
(***************************************************************************)
(* Model of homework.py: the fitness tracker's calculation layer           *)
(* (Training and its subclasses Running, SportsWalking, Swimming), the    *)
(* dispatcher read_package, the reporter InfoMessage.get_message and the  *)
(* entry-point loop of the __main__ block.                                 *)
(*                                                                         *)
(* Numbers.  The source computes with Python ints and floats.  The model  *)
(* computes with exact rationals [n |-> numerator, d |-> denominator > 0, *)
(* nz |-> the value is the float -0.0] in lowest terms; the float         *)
(* literals 0.65, 1.38, 0.035, 0.029 and 1.1 are the decimal fractions    *)
(* they are written as.  A float of the source is the model's value up to *)
(* the rounding error of binary floating point, which the model does not  *)
(* carry; where a printed digit depends on that error (Fmt3) the model    *)
(* allows both digits.                                                     *)
(*                                                                         *)
(* Text.  The module is ASCII: the Russian labels and messages of the     *)
(* source are transliterated.  A formatted string is a tuple of its       *)
(* literal and interpolated parts, in order.                               *)
(*                                                                         *)
(* Exceptions.  An evaluation yields an outcome record: exc = "none" and  *)
(* the value in val, or exc = the name of the raised exception and its    *)
(* message in msg (empty for a message the interpreter generates).        *)
(***************************************************************************)
EXTENDS Integers, Sequences, FiniteSets

VARIABLES pc, i, cur, training, info, stdout, err

vars == <<pc, i, cur, training, info, stdout, err>>

(***************************************************************************)
(* Bounds of the model.                                                    *)
(***************************************************************************)
\* the longest list `packages` the entry-point loop is run on (the list of
\* the source has three pairs)
MaxPackages == 3
\* the number of construct-then-main calls a direct user of the classes makes
MaxCalls == 1

(***************************************************************************)
(* Arithmetic: Python's numeric operators on exact rationals.              *)
(***************************************************************************)
Abs(x) == IF x < 0 THEN -x ELSE x

RECURSIVE GCD(_, _)
GCD(a, b) == IF b = 0 THEN a ELSE GCD(b, a % b)

\* the rational n/d (d # 0) in lowest terms with a positive denominator
Rat(n, d) ==
    LET s == IF d < 0 THEN -1 ELSE 1
        g == GCD(Abs(n), Abs(d))
    IN  [n |-> (s * n) \div g, d |-> (s * d) \div g, nz |-> FALSE]

\* an int operand (an int has no negative zero)
I(k) == [n |-> k, d |-> 1, nz |-> FALSE]

\* the sign bit of a float: set for a negative value and for -0.0
Neg(a) == a.n < 0 \/ (a.n = 0 /\ a.nz)

\* r, as -0.0 when it is zero and the IEEE rule of the operation says neg
Signed(r, neg) == [n |-> r.n, d |-> r.d, nz |-> r.n = 0 /\ neg]

\* the exact sum a + s * b (s = 1 or -1) over the least common denominator
Sum(a, s, b) ==
    LET g == GCD(a.d, b.d)
    IN  Rat(a.n * (b.d \div g) + s * b.n * (a.d \div g), (a.d \div g) * b.d)

\* a + b; a zero sum is -0.0 only for -0.0 + -0.0
RAdd(a, b) ==
    Signed(Sum(a, 1, b), a.n = 0 /\ b.n = 0 /\ a.nz /\ b.nz)

\* a - b; a zero difference is -0.0 only for -0.0 - 0.0
RSub(a, b) ==
    Signed(Sum(a, -1, b), a.n = 0 /\ b.n = 0 /\ a.nz /\ ~b.nz)

\* a * b (cross-reduced first, so that the products stay small); the sign
\* of a zero product is the product of the signs
RMul(a, b) ==
    LET x == Rat(a.n, b.d)
        y == Rat(b.n, a.d)
    IN  Signed([n |-> x.n * y.n, d |-> x.d * y.d, nz |-> FALSE],
               Neg(a) # Neg(b))

\* a / b for b # 0 (the callers raise ZeroDivisionError for b = 0)
RDiv(a, b) == RMul(a, Rat(b.d, b.n))

\* a // b for b # 0: the floor of the quotient; a zero result takes the sign
\* of a / b
RFloorDiv(a, b) ==
    LET q == RDiv(a, b)
    IN  Signed(I(q.n \div q.d), Neg(a) # Neg(b))

\* a ** 2
RSquare(a) == RMul(a, a)

\* format(x, '.3f'): the renderings sign, thousandths (the digits without
\* the point) that the float standing for x can have.  The magnitude is
\* rounded to 3 decimal digits.  Off a decimal tie the digits are decided.
\* On a tie the float lies on x or just below or just above it, by a
\* rounding error the rational does not carry, and the source prints the
\* digits nearest to the float: either neighbour can be printed.
Fmt3(x) ==
    LET m == RMul(x, I(1000))
        a == Abs(m.n)
        q == a \div m.d
        r == a - q * m.d
        sign == IF Neg(x) THEN "-" ELSE ""
        digits == IF 2 * r < m.d THEN {q}
                  ELSE IF 2 * r > m.d THEN {q + 1}
                  ELSE {q, q + 1}
    IN  {[sign |-> sign, thousandths |-> k] : k \in digits}

(***************************************************************************)
(* Outcomes of an evaluation.                                              *)
(***************************************************************************)
\* Python's None
None == [cls |-> "NoneType"]

\* normal return of v
Ok(v) == [exc |-> "none", msg |-> <<>>, val |-> v]

\* exception e with message m
Raise(e, m) == [exc |-> e, msg |-> m, val |-> None]

\* no uncaught exception; `where` names the function an exception left
NoError == [exc |-> "none", msg |-> <<>>, where |-> "none"]

(***************************************************************************)
(* Class constants.                                                        *)
(***************************************************************************)
M_IN_KM == 1000
MIN_IN_HR == 60
COEFF_CALORIES_1 == 18
COEFF_CALORIES_2 == 20
COEFF_CALORIES_3 == Rat(35, 1000)
COEFF_CALORIES_4 == Rat(29, 1000)
COEFF_CALORIES_5 == Rat(11, 10)
COEFF_CALORIES_6 == 2

Classes == {"Training", "Running", "SportsWalking", "Swimming"}

\* faulty variant: the override of Swimming is ignored
LEN_STEP_base(cls) == Rat(65, 100)

\* the class attribute LEN_STEP as looked up on an instance of cls:
\* Swimming overrides the value it inherits from Training
LEN_STEP(cls) == IF cls = "Swimming" THEN Rat(138, 100) ELSE Rat(65, 100)

(***************************************************************************)
(* Constructors.  data is the tuple of positional arguments.               *)
(***************************************************************************)
\* faulty variant: duration and weight exchanged
Training_init_swapped(cls, data) ==
    [cls |-> cls, action |-> data[1], duration |-> data[3], weight |-> data[2]]

\* Training.__init__, also run by super().__init__ of the subclasses
Training_init(cls, data) ==
    [cls |-> cls, action |-> data[1], duration |-> data[2], weight |-> data[3]]

SportsWalking_init(cls, data) ==
    LET base == Training_init(cls, data)
    IN  [cls |-> base.cls, action |-> base.action, duration |-> base.duration,
         weight |-> base.weight, height |-> data[4]]

Swimming_init(cls, data) ==
    LET base == Training_init(cls, data)
    IN  [cls |-> base.cls, action |-> base.action, duration |-> base.duration,
         weight |-> base.weight, length_pool |-> data[4],
         count_pool |-> data[5]]

\* the number of positional parameters of cls.__init__ after self
Arity(cls) ==
    CASE cls = "SportsWalking" -> 4
      [] cls = "Swimming" -> 5
      [] OTHER -> 3

\* the call cls(*data): TypeError unless data fills the parameters exactly
New(cls, data) ==
    IF Len(data) # Arity(cls) THEN Raise("TypeError", <<>>)
    ELSE CASE cls = "SportsWalking" -> Ok(SportsWalking_init(cls, data))
           [] cls = "Swimming" -> Ok(Swimming_init(cls, data))
           [] OTHER -> Ok(Training_init(cls, data))

(***************************************************************************)
(* Methods.  t is the instance (self).                                     *)
(***************************************************************************)
get_distance(t) ==
    RDiv(RMul(I(t.action), LEN_STEP(t.cls)), I(M_IN_KM))

Training_get_mean_speed(t) ==
    IF t.duration = 0 THEN Raise("ZeroDivisionError", <<>>)
    ELSE Ok(RDiv(get_distance(t), I(t.duration)))

\* faulty variant: the inherited formula, from the action count
Swimming_get_mean_speed_by_action(t) ==
    IF t.duration = 0 THEN Raise("ZeroDivisionError", <<>>)
    ELSE Ok(RDiv(get_distance(t), I(t.duration)))

Swimming_get_mean_speed(t) ==
    IF t.duration = 0 THEN Raise("ZeroDivisionError", <<>>)
    ELSE Ok(RDiv(RDiv(I(t.length_pool * t.count_pool), I(M_IN_KM)),
                 I(t.duration)))

\* self.get_mean_speed(): Swimming overrides, the others inherit
get_mean_speed(t) ==
    IF t.cls = "Swimming" THEN Swimming_get_mean_speed(t)
    ELSE Training_get_mean_speed(t)

\* faulty variant: returns 0 instead of raising
Training_get_spent_calories_silent(t) == Ok(I(0))

Training_get_spent_calories(t) ==
    Raise("NotImplementedError",
          <<"Metod \"get_spent_calories\" dlya klassa naslednika",
            t.cls, " ne opredelen">>)

\* faulty variant: COEFF_CALORIES_1 * (speed - COEFF_CALORIES_2)
Running_get_spent_calories_misgrouped(t) ==
    LET s == get_mean_speed(t)
    IN  IF s.exc # "none" THEN s
        ELSE Ok(RMul(RDiv(RMul(RMul(I(COEFF_CALORIES_1),
                                    RSub(s.val, I(COEFF_CALORIES_2))),
                               I(t.weight)),
                          I(M_IN_KM)),
                     I(t.duration * MIN_IN_HR)))

Running_get_spent_calories(t) ==
    LET s == get_mean_speed(t)
    IN  IF s.exc # "none" THEN s
        ELSE Ok(RMul(RDiv(RMul(RSub(RMul(I(COEFF_CALORIES_1), s.val),
                                    I(COEFF_CALORIES_2)),
                               I(t.weight)),
                          I(M_IN_KM)),
                     I(t.duration * MIN_IN_HR)))

\* faulty variant: the floor division taken after the multiplication by the
\* weight, (speed ** 2 * weight // height) * COEFF_CALORIES_4
SportsWalking_get_spent_calories_widefloor(t) ==
    LET s == get_mean_speed(t)
    IN  IF s.exc # "none" THEN s
        ELSE IF t.height = 0 THEN Raise("ZeroDivisionError", <<>>)
        ELSE Ok(RMul(RMul(RAdd(RMul(COEFF_CALORIES_3, I(t.weight)),
                               RMul(RFloorDiv(RMul(RSquare(s.val), I(t.weight)),
                                              I(t.height)),
                                    COEFF_CALORIES_4)),
                          I(t.duration)),
                     I(MIN_IN_HR)))

SportsWalking_get_spent_calories(t) ==
    LET s == get_mean_speed(t)
    IN  IF s.exc # "none" THEN s
        ELSE IF t.height = 0 THEN Raise("ZeroDivisionError", <<>>)
        ELSE Ok(RMul(RMul(RAdd(RMul(COEFF_CALORIES_3, I(t.weight)),
                               RMul(RMul(RFloorDiv(RSquare(s.val), I(t.height)),
                                         COEFF_CALORIES_4),
                                    I(t.weight))),
                          I(t.duration)),
                     I(MIN_IN_HR)))

Swimming_get_spent_calories(t) ==
    LET s == get_mean_speed(t)
    IN  IF s.exc # "none" THEN s
        ELSE Ok(RMul(RMul(RAdd(s.val, COEFF_CALORIES_5), I(COEFF_CALORIES_6)),
                     I(t.weight)))

\* self.get_spent_calories(): every subclass overrides, Training raises
get_spent_calories(t) ==
    CASE t.cls = "Running" -> Running_get_spent_calories(t)
      [] t.cls = "SportsWalking" -> SportsWalking_get_spent_calories(t)
      [] t.cls = "Swimming" -> Swimming_get_spent_calories(t)
      [] OTHER -> Training_get_spent_calories(t)

\* the dataclass InfoMessage(training_type, duration, distance, speed, calories)
InfoMessage(training_type, duration, distance, speed, calories) ==
    [cls |-> "InfoMessage", training_type |-> training_type,
     duration |-> duration, distance |-> distance, speed |-> speed,
     calories |-> calories]

\* faulty variant: a value that failed to compute is replaced by 0
show_training_info_partial(t) ==
    LET s == get_mean_speed(t)
        c == get_spent_calories(t)
    IN  Ok(InfoMessage(t.cls, t.duration, get_distance(t),
                       IF s.exc = "none" THEN s.val ELSE I(0),
                       IF c.exc = "none" THEN c.val ELSE I(0)))

\* the arguments of InfoMessage(...) are evaluated left to right; the first
\* one that raises ends the call
show_training_info(t) ==
    LET s == get_mean_speed(t)
        c == get_spent_calories(t)
    IN  IF s.exc # "none" THEN s
        ELSE IF c.exc # "none" THEN c
        ELSE Ok(InfoMessage(t.cls, t.duration, get_distance(t), s.val, c.val))

\* the labels of InfoMessage (transliterated)
MESSAGE_TRAINING_TYPE == "Tip trenirovki:"
MESSAGE_DURATION == "Dlitelnost:"
MESSAGE_DISTANCE == "Distanciya:"
MESSAGE_SPEED == "Sr. skorost:"
MESSAGE_CALORIES == "Potracheno kkal:"

\* InfoMessage.get_message: the literal and interpolated parts of the
\* f-string in order, each number formatted with '.3f'; the set of the
\* strings the message can be (one, unless a number sits on a decimal tie)
get_message(m) ==
    {<<MESSAGE_TRAINING_TYPE, " ", m.training_type, "; ",
       MESSAGE_DURATION, " ", du, " ch.; ",
       MESSAGE_DISTANCE, " ", di, " km; ",
       MESSAGE_SPEED, " ", sp, " km/ch; ",
       MESSAGE_CALORIES, " ", ca, ".">> :
         du \in Fmt3(I(m.duration)), di \in Fmt3(m.distance),
         sp \in Fmt3(m.speed), ca \in Fmt3(m.calories)}

(***************************************************************************)
(* Module-level functions.  Their outcome carries `out`, the lines they    *)
(* print; that of main also carries `info`, its local variable.            *)
(***************************************************************************)
\* faulty variant: "RUN" mapped to the base class
type_trainings_base_for_run ==
    [RUN |-> "Training", WLK |-> "SportsWalking", SWM |-> "Swimming"]

\* the dict of read_package
type_trainings ==
    [RUN |-> "Running", WLK |-> "SportsWalking", SWM |-> "Swimming"]

WithOut(r, out) == [exc |-> r.exc, msg |-> r.msg, val |-> r.val, out |-> out]

\* a recognized type: the instance, or the exception of the constructor call.
\* Any other type: type_trainings[workout_type] raises KeyError inside the
\* try, the handler prints one line and the function returns None.
read_package(workout_type, data) ==
    IF workout_type \in DOMAIN type_trainings
    THEN WithOut(New(type_trainings[workout_type], data), <<>>)
    ELSE WithOut(Ok(None),
                 << <<"Tip trenerovki \"", workout_type, "\" ne relevanten">> >>)

\* the outcome of main: it returns None; info is its local variable
MainOutcome(r, info_, out) ==
    [exc |-> r.exc, msg |-> r.msg, val |-> None, out |-> out, info |-> info_]

\* main(training): training.show_training_info() needs an instance
\* (AttributeError on None) and may raise, which leaves info unbound;
\* otherwise the message of info is printed.  The set of the outcomes the
\* call can have (one for each string get_message can return).
main(t) ==
    IF t = None THEN {MainOutcome(Raise("AttributeError", <<>>), None, <<>>)}
    ELSE LET r == show_training_info(t)
         IN  IF r.exc # "none" THEN {MainOutcome(r, None, <<>>)}
             ELSE {MainOutcome(Ok(None), r.val, <<line>>) :
                      line \in get_message(r.val)}

(***************************************************************************)
(* Inputs.                                                                 *)
(***************************************************************************)
\* the three recognized tags and two that are not
Tags == {"RUN", "WLK", "SWM", "XYZ", "run"}

\* sensor value lists of the entry point: the three packages of the source
\* and their neighbours, in the shapes of all three classes, and a short one
PackageData ==
    {<<a, d, w>> \o e : a \in {720, 9000, 15000}, d \in {0, 1},
                        w \in {75, 80}, e \in {<<>>, <<180>>, <<25, 40>>}}
    \cup {<<720, 1>>}

\* argument lists of a direct user of the classes; among them action counts
\* whose distance is a decimal tie (30, 1250) and a weight of 0
ApiData ==
    {<<a, d, w>> \o e : a \in {0, 30, 720, 1250, 9000, 15000, 20000},
                        d \in {0, 1, 2}, w \in {0, 75, 80},
                        e \in {<<>>, <<25>>, <<169>>, <<180>>, <<0>>,
                               <<25, 40>>, <<50, 20>>}}

(***************************************************************************)
(* The state machine.                                                      *)
(*   pc       "idle" between calls, "main" when main(training) is next,    *)
(*            "done" after the loop, "crashed" after an uncaught exception *)
(*   i        the number of packages (calls) started                       *)
(*   cur      the loop variables workout_type and data                     *)
(*   training the module-level variable training                           *)
(*   info     the local info of the main call just made (None outside)     *)
(*   stdout   the lines printed so far                                     *)
(*   err      the uncaught exception, if any                               *)
(***************************************************************************)
Init ==
    /\ pc = "idle"
    /\ i = 0
    /\ cur = [workout_type |-> "", data |-> <<>>]
    /\ training = None
    /\ info = None
    /\ stdout = <<>>
    /\ err = NoError

\* training = read_package(workout_type, data) for the next package
\* (r is the outcome of the call)
CallReadPackage ==
    /\ pc = "idle"
    /\ i < MaxPackages
    /\ \E workout_type \in Tags, data \in PackageData :
          \E r \in {read_package(workout_type, data)} :
              /\ cur' = [workout_type |-> workout_type, data |-> data]
              /\ i' = i + 1
              /\ stdout' = stdout \o r.out
              /\ info' = None
              /\ IF r.exc = "none"
                 THEN /\ training' = r.val
                      /\ pc' = "main"
                      /\ err' = NoError
                 ELSE /\ training' = training
                      /\ pc' = "crashed"
                      /\ err' = [exc |-> r.exc, msg |-> r.msg,
                                 where |-> "read_package"]

\* main(training)
CallMain ==
    /\ pc = "main"
    /\ \E r \in main(training) :
          /\ stdout' = stdout \o r.out
          /\ IF r.exc = "none"
             THEN /\ info' = r.info
                  /\ pc' = "idle"
                  /\ err' = NoError
             ELSE /\ info' = None
                  /\ pc' = "crashed"
                  /\ err' = [exc |-> r.exc, msg |-> r.msg, where |-> "main"]
    /\ UNCHANGED <<i, cur, training>>

\* the list packages is exhausted: the program ends normally
Finish ==
    /\ pc = "idle"
    /\ pc' = "done"
    /\ UNCHANGED <<i, cur, training, info, stdout, err>>

\* a direct user of the classes: training = cls(*data)
Construct ==
    /\ pc = "idle"
    /\ i < MaxCalls
    /\ \E cls \in Classes, data \in ApiData :
          \E r \in {New(cls, data)} :
              /\ i' = i + 1
              /\ info' = None
              /\ IF r.exc = "none"
                 THEN /\ training' = r.val
                      /\ pc' = "main"
                      /\ err' = NoError
                 ELSE /\ training' = training
                      /\ pc' = "crashed"
                      /\ err' = [exc |-> r.exc, msg |-> r.msg,
                                 where |-> "__init__"]
    /\ UNCHANGED <<cur, stdout>>

\* the program: the loop of the __main__ block over any list of packages
Next == CallReadPackage \/ CallMain \/ Finish

Spec == Init /\ [][Next]_vars

\* the classes used directly
NextApi == Construct \/ CallMain

SpecApi == Init /\ [][NextApi]_vars

(***************************************************************************)
(* Properties.                                                             *)
(***************************************************************************)
\* main(training) has been called for the current package (call) and has
\* returned or raised
MainActed == i > 0 /\ pc # "main" /\ err.where \notin {"read_package", "__init__"}

\* read_package has returned normally for the current package
ReadReturned == i > 0 /\ err.where # "read_package"

RecognizedTags == {"RUN", "WLK", "SWM"}

\* a < k for a rational a and an integer k
RLess(a, k) == a.n \div a.d < k

\* the part x of the message m
Mentions(m, x) == \E k \in DOMAIN m : m[k] = x

\* C1 (as claimed): read_package called with a tag other than "RUN", "WLK",
\* "SWM" does not return: it raises an error, raised by read_package itself,
\* whose message contains the tag.
C1_UnknownTagRaises ==
    (i > 0 /\ cur.workout_type \notin RecognizedTags) =>
        /\ pc = "crashed"
        /\ err.where = "read_package"
        /\ err.exc # "none"
        /\ Mentions(err.msg, cur.workout_type)

\* C2 (as claimed): the only abnormal termination of the entry-point loop is
\* an exception raised by read_package; once read_package has returned for a
\* package, main completes for it.
C2_OnlyReadPackageFails ==
    pc = "crashed" => err.where = "read_package"

RunPackage == [workout_type |-> "RUN", data |-> <<15000, 1, 75>>]

\* C3 (as claimed): the package ("RUN", [15000, 1, 75]) yields distance 9.75,
\* mean speed 9.75 and calories 728.25.
C3_RunScenarioAsClaimed ==
    (cur = RunPackage /\ MainActed) =>
        /\ info # None
        /\ info.distance = Rat(975, 100)
        /\ info.speed = Rat(975, 100)
        /\ info.calories = Rat(72825, 100)

\* C3 (amended): the package ("RUN", [15000, 1, 75]) yields distance 9.75,
\* mean speed 9.75 and calories (18*9.75-20)*75/1000*(1*60) = 699.75.
C3_RunScenario ==
    (cur = RunPackage /\ MainActed) =>
        /\ info # None
        /\ info.distance = Rat(975, 100)
        /\ info.speed = Rat(975, 100)
        /\ info.calories = Rat(69975, 100)

C3_Witness == cur = RunPackage /\ MainActed /\ info # None /\ pc = "idle"

\* the variant the specification assigns to a recognized tag
VariantOf(tag) ==
    CASE tag = "RUN" -> "Running"
      [] tag = "WLK" -> "SportsWalking"
      [] tag = "SWM" -> "Swimming"

\* C4: read_package maps "RUN" to Running, "WLK" to SportsWalking and "SWM"
\* to Swimming and assigns the values in order (action, duration, weight,
\* then height, or pool length and pool count); the record of
\* show_training_info carries that variant's name and the second value as
\* the duration.
C4_DispatchPositional ==
    (ReadReturned /\ cur.workout_type \in RecognizedTags) =>
        /\ training.cls = VariantOf(cur.workout_type)
        /\ training.action = cur.data[1]
        /\ training.duration = cur.data[2]
        /\ training.weight = cur.data[3]
        /\ cur.workout_type = "RUN" => DOMAIN training = {"cls", "action", "duration", "weight"}
        /\ cur.workout_type = "WLK" => training.height = cur.data[4]
        /\ cur.workout_type = "SWM" =>
              training.length_pool = cur.data[4] /\ training.count_pool = cur.data[5]
        /\ info # None =>
              /\ info.training_type = VariantOf(cur.workout_type)
              /\ info.duration = cur.data[2]

C4_Witness ==
    /\ cur.workout_type = "SWM"
    /\ MainActed
    /\ info # None
    /\ info.training_type = "Swimming"
    /\ cur.data[2] # cur.data[3]

\* the action counts a Swimming workout is compared under
ActionCounts == {0, 1, 720, 9000, 15000, 20000}

\* C5: a Swimming workout with duration > 0 gets the same mean speed and the
\* same calories whatever its action count is; only the distance depends on
\* the action count.
C5_SwimmingIgnoresAction ==
    (training.cls = "Swimming" /\ training.duration > 0 /\ MainActed) =>
        \A a \in ActionCounts :
            LET other == show_training_info([training EXCEPT !.action = a])
            IN  /\ info # None
                /\ other.exc = "none"
                /\ other.val.speed = info.speed
                /\ other.val.calories = info.calories

C5_Witness ==
    /\ training.cls = "Swimming"
    /\ training.duration > 0
    /\ MainActed
    /\ info # None
    /\ \E a \in ActionCounts :
          get_distance([training EXCEPT !.action = a]) # info.distance

SwimPackage == [workout_type |-> "SWM", data |-> <<720, 1, 80, 25, 40>>]

\* C6: the package ("SWM", [720, 1, 80, 25, 40]) yields distance
\* 720*1.38/1000 = 0.9936 (the stroke length 1.38, not 0.65), mean speed 1.0
\* and calories 336.0.
C6_SwimScenario ==
    (cur = SwimPackage /\ MainActed) =>
        /\ info # None
        /\ info.distance = Rat(9936, 10000)
        /\ info.speed = I(1)
        /\ info.calories = I(336)

C6_Witness == cur = SwimPackage /\ MainActed /\ info # None /\ pc = "idle"

\* C7 (as claimed): get_spent_calories on a base Training raises
\* NotImplementedError naming the class, and show_training_info on it fails
\* with that same error.
C7_BaseSummaryAsClaimed ==
    (training.cls = "Training" /\ MainActed) =>
        /\ get_spent_calories(training).exc = "NotImplementedError"
        /\ Mentions(get_spent_calories(training).msg, "Training")
        /\ err.exc = "NotImplementedError"
        /\ err.msg = get_spent_calories(training).msg

\* C7 (amended): get_spent_calories on a base Training raises
\* NotImplementedError naming the class; show_training_info on it returns no
\* record: it fails with that same error when the duration is not 0, and with
\* the ZeroDivisionError of get_mean_speed, which is evaluated first, when
\* the duration is 0.
C7_BaseSummary ==
    (training.cls = "Training" /\ MainActed) =>
        /\ get_spent_calories(training).exc = "NotImplementedError"
        /\ Mentions(get_spent_calories(training).msg, "Training")
        /\ pc = "crashed"
        /\ info = None
        /\ err.where = "main"
        /\ training.duration # 0 =>
              /\ err.exc = "NotImplementedError"
              /\ err.msg = get_spent_calories(training).msg
        /\ training.duration = 0 => err.exc = "ZeroDivisionError"

C7_Witness ==
    /\ training.cls = "Training"
    /\ MainActed
    /\ err.exc = "NotImplementedError"
    /\ Mentions(err.msg, "Training")

\* C8: show_training_info has no partial result.  After main, either a
\* record exists in which distance, mean speed and calories are the values
\* their methods returned, and its line is printed; or the call failed, no
\* record exists and nothing was printed for the workout.  A workout of any
\* class with duration 0 gets no record.
C8_NoPartialResult ==
    MainActed =>
        /\ \/ /\ info # None
              /\ pc = "idle"
              /\ err = NoError
              /\ get_mean_speed(training).exc = "none"
              /\ get_spent_calories(training).exc = "none"
              /\ info.training_type = training.cls
              /\ info.duration = training.duration
              /\ info.distance = get_distance(training)
              /\ info.speed = get_mean_speed(training).val
              /\ info.calories = get_spent_calories(training).val
              /\ Len(stdout) = i
              /\ stdout[i] \in get_message(info)
           \/ /\ info = None
              /\ pc = "crashed"
              /\ err.exc # "none"
              /\ Len(stdout) = i - 1
        /\ training.duration = 0 => info = None /\ pc = "crashed"

C8_Witness ==
    /\ MainActed
    /\ training.cls = "Swimming"
    /\ training.duration = 0
    /\ pc = "crashed"
    /\ err.exc = "ZeroDivisionError"

\* C9: through read_package the not-implemented error is unreachable: a
\* recognized tag yields an instance of a class that overrides
\* get_spent_calories, and no run of the entry-point loop ends in
\* NotImplementedError.
C9_NotImplementedUnreachable ==
    /\ err.exc # "NotImplementedError"
    /\ (ReadReturned /\ cur.workout_type \in RecognizedTags) =>
          /\ training.cls \in {"Running", "SportsWalking", "Swimming"}
          /\ get_spent_calories(training).exc # "NotImplementedError"
          /\ show_training_info(training).exc # "NotImplementedError"

C9_Witness ==
    /\ cur.workout_type = "RUN"
    /\ cur.data[2] > 0
    /\ MainActed
    /\ training.cls = "Running"
    /\ info # None

\* floor(speed^2 / height) of the record of a walking workout
WalkFloor == RFloorDiv(RSquare(info.speed), I(training.height)).n

\* C10: for a SportsWalking workout with duration > 0 and height > 0 the
\* calories are (0.035*weight + floor(speed^2/height)*0.029*weight)
\* * duration * 60, the floor taken of the quotient alone; when
\* speed^2 < height the second term is 0; (9000, 1, 75, 180) yields distance
\* 5.85, mean speed 5.85 and calories 157.5.
C10_WalkingCalories ==
    (/\ training.cls = "SportsWalking"
     /\ training.duration > 0
     /\ training.height > 0
     /\ MainActed) =>
        /\ info # None
        /\ info.calories =
              Rat((35 * training.weight + WalkFloor * 29 * training.weight)
                     * training.duration * 60, 1000)
        /\ RLess(RSquare(info.speed), training.height) =>
              info.calories = Rat(35 * training.weight * training.duration * 60, 1000)
        /\ (/\ training.action = 9000 /\ training.duration = 1
            /\ training.weight = 75 /\ training.height = 180) =>
              /\ info.distance = Rat(585, 100)
              /\ info.speed = Rat(585, 100)
              /\ info.calories = Rat(1575, 10)

C10_Witness ==
    /\ training.cls = "SportsWalking"
    /\ training.duration > 0
    /\ training.height > 0
    /\ MainActed
    /\ info # None
    /\ WalkFloor >= 1
    /\ RDiv(RSquare(info.speed), I(training.height)).d # 1

====
